---- MODULE Spec2Model ----
(***************************************************************************)
(* Model of libscran/factorize: create_factor, combine_to_factor and       *)
(* combine_to_factor_unused.                                                *)
(*                                                                         *)
(* A call is modelled as a run: Init is the state at entry (the template   *)
(* instantiation, the caller's arrays), every loop of the source is an     *)
(* action (one firing per iteration for the loops whose invariants are     *)
(* of interest, one firing for a whole straight-line block otherwise).     *)
(* Vectors and arrays are functions on 0..len-1 so that indices are the    *)
(* indices of the source.  Code_ is an unsigned integer type of `bits`     *)
(* bits: every store into a Code_ goes through ToCode.                      *)
(***************************************************************************)
EXTENDS Integers, Sequences, FiniteSets, TLC

\* ---------------------------------------------------------------- bounds
\* Largest number of observations n of create_factor / combine_to_factor.
MaxN == 3
\* Raw values of the observed operations are drawn from 0..MaxVal.
MaxVal == 2
\* Code_ is instantiated at every width 1..MaxCodeBits.
MaxCodeBits == 3
\* Largest number of observations n of combine_to_factor_unused.
MaxObs == 1
\* Declared cardinalities of combine_to_factor_unused are drawn from 0..MaxCard.
MaxCard == 3

\* The code paths of the combiners: ninputs == 0, ninputs == 1, general.
ObservedArities == {0, 1, 2}
UnusedArities == {0, 1, 2, 3}

VARIABLES
    op,             \* which function was called
    bits,           \* width of Code_
    n,              \* number of observations
    inputs,         \* inputs[f][i]: raw value of variable f at observation i
    cards,          \* cards[f]: inputs[f].second of combine_to_factor_unused
    codes,          \* the caller's codes array
    pc,             \* position in the called function
    i,              \* index of the discovery loop
    f,              \* index of the variable loops of combine_to_factor_unused
    mapping,        \* the (unordered_)map of the discovery pass: set of pairs
    unique,         \* vector of (key, label) pairs
    remapping,      \* vector<Code_> from first-seen label to sorted position
    levels,         \* the vector returned by create_factor
    output,         \* the vector of vectors returned by a combiner
    ncombos,        \* running product of cardinalities
    inner_repeats,  \* see combine_to_factor_unused
    outer_repeats

vars == <<op, bits, n, inputs, cards, codes, pc, i, f, mapping, unique,
          remapping, levels, output, ncombos, inner_repeats, outer_repeats>>

\* ---------------------------------------------------------------- vectors
\* Content of an array element the called function has not written.
Unwritten == -1

Size(v) == Cardinality(DOMAIN v)
EmptyVec == [j \in {} |-> 0]
Filled(len, x) == [j \in 0..(len - 1) |-> x]
PushBack(v, x) == [j \in 0..Size(v) |-> IF j < Size(v) THEN v[j] ELSE x]
Concat(v, w) ==
    [j \in 0..(Size(v) + Size(w) - 1) |-> IF j < Size(v) THEN v[j] ELSE w[j - Size(v)]]

\* ---------------------------------------------------------------- Code_
Modulus == 2 ^ bits
CodeMax == Modulus - 1
\* Conversion of a non-negative integer to the unsigned Code_.
ToCode(x) == x % Modulus

ninputs == Size(inputs)
Obs == 0..(n - 1)
\* The tuple of raw values of observation j.
Tuple(j) == [g \in DOMAIN inputs |-> inputs[g][j]]

\* ======================================================== create_factor
\* mapping.find(current) != mapping.end()
MapHas(m, key) == \E e \in m : e.first = key
MapAt(m, key) == (CHOOSE e \in m : e.first = key).second

\* One iteration of the discovery loop of create_factor.
CreateDiscover ==
    /\ pc = "cf_loop"
    /\ i < n
    /\ LET current == inputs[0][i] IN
         IF MapHas(mapping, current)
         THEN /\ codes' = [codes EXCEPT ![i] = MapAt(mapping, current)]
              /\ mapping' = mapping
         ELSE LET alt == ToCode(Cardinality(mapping)) IN
              /\ mapping' = mapping \cup {[first |-> current, second |-> alt]}
              /\ codes' = [codes EXCEPT ![i] = alt]
    /\ i' = i + 1
    /\ UNCHANGED <<op, bits, n, inputs, cards, pc, f, unique, remapping, levels,
                   output, ncombos, inner_repeats, outer_repeats>>

\* operator< of std::pair<Input_, Code_>
PairLess(a, b) == a.first < b.first \/ (a.first = b.first /\ a.second < b.second)

\* std::sort of the pairs copied out of the unordered_map.  The pairs are
\* distinct, so the result does not depend on the map's iteration order.
RECURSIVE SortPairs(_)
SortPairs(S) ==
    IF S = {} THEN EmptyVec
    ELSE LET hi == CHOOSE x \in S : \A y \in S : ~PairLess(x, y)
         IN PushBack(SortPairs(S \ {hi}), hi)

\* remapping after the first u iterations of the remapping loop.
RECURSIVE RemapUpTo(_, _)
RemapUpTo(uniq, u) ==
    IF u = 0 THEN Filled(Size(uniq), 0)
    ELSE [RemapUpTo(uniq, u - 1) EXCEPT ![uniq[u - 1].second] = ToCode(u - 1)]

BuildRemapping(uniq) == RemapUpTo(uniq, Size(uniq))

\* Mutant of RewriteCodes: the rewriting loop is skipped, the first-seen
\* labels are returned.
RewriteCodesSkipped(cs, remap) == cs

\* codes[i] = remapping[codes[i]] for every observation.
RewriteCodes(cs, remap) == [j \in DOMAIN cs |-> remap[cs[j]]]

\* End of the discovery loop, the sort and the remapping loop of create_factor.
CreateRemap ==
    /\ pc = "cf_loop"
    /\ i = n
    /\ LET sorted == SortPairs(mapping) IN
         /\ unique' = sorted
         /\ remapping' = BuildRemapping(sorted)
         /\ levels' = [u \in DOMAIN sorted |-> sorted[u].first]
    /\ pc' = "cf_rewrite"
    /\ UNCHANGED <<op, bits, n, inputs, cards, codes, i, f, mapping, output,
                   ncombos, inner_repeats, outer_repeats>>

\* The rewriting loop of create_factor and its return; when the caller is
\* combine_to_factor (ninputs == 1) the result is stored in output[0].
CreateRewrite ==
    /\ pc = "cf_rewrite"
    /\ codes' = RewriteCodes(codes, remapping)
    /\ output' = IF op = "combine_to_factor" THEN [output EXCEPT ![0] = levels]
                 ELSE output
    /\ pc' = "done"
    /\ UNCHANGED <<op, bits, n, inputs, cards, i, f, mapping, unique, remapping,
                   levels, ncombos, inner_repeats, outer_repeats>>

\* ==================================================== combine_to_factor
\* The comparator cmp of the std::map, from variable g on.
RECURSIVE CmpFrom(_, _, _)
CmpFrom(g, left, right) ==
    IF g = ninputs THEN FALSE
    ELSE IF inputs[g][left] < inputs[g][right] THEN TRUE
    ELSE IF inputs[g][left] > inputs[g][right] THEN FALSE
    ELSE CmpFrom(g + 1, left, right)

Cmp(left, right) == CmpFrom(0, left, right)

\* The equality predicate eq.
Eq(left, right) == \A g \in DOMAIN inputs : inputs[g][left] = inputs[g][right]

\* mapping.find(current): the entries equivalent to current under cmp
\* (none: end()).
Find(m, current) == {e \in m : ~Cmp(e.first, current) /\ ~Cmp(current, e.first)}

\* ninputs == 0
CombineNoInputs ==
    /\ pc = "ct_entry"
    /\ ninputs = 0
    /\ codes' = [j \in DOMAIN codes |-> 0]
    /\ pc' = "done"
    /\ UNCHANGED <<op, bits, n, inputs, cards, i, f, mapping, unique, remapping,
                   levels, output, ncombos, inner_repeats, outer_repeats>>

\* ninputs == 1: create_factor is called.
CombineDelegate ==
    /\ pc = "ct_entry"
    /\ ninputs = 1
    /\ pc' = "cf_loop"
    /\ UNCHANGED <<op, bits, n, inputs, cards, codes, i, f, mapping, unique,
                   remapping, levels, output, ncombos, inner_repeats, outer_repeats>>

CombineGeneral ==
    /\ pc = "ct_entry"
    /\ ninputs >= 2
    /\ pc' = "ct_loop"
    /\ UNCHANGED <<op, bits, n, inputs, cards, codes, i, f, mapping, unique,
                   remapping, levels, output, ncombos, inner_repeats, outer_repeats>>

\* One iteration of the discovery loop of combine_to_factor.
CombineDiscover ==
    /\ pc = "ct_loop"
    /\ i < n
    /\ LET mIt == Find(mapping, i) IN
         IF mIt = {} \/ (\E e \in mIt : ~Eq(e.first, i))
         THEN LET alt == ToCode(Cardinality(mapping)) IN
              /\ mapping' = mapping \cup {[first |-> i, second |-> alt]}
              /\ codes' = [codes EXCEPT ![i] = alt]
         ELSE /\ codes' = [codes EXCEPT ![i] = (CHOOSE e \in mIt : TRUE).second]
              /\ mapping' = mapping
    /\ i' = i + 1
    /\ UNCHANGED <<op, bits, n, inputs, cards, pc, f, unique, remapping, levels,
                   output, ncombos, inner_repeats, outer_repeats>>

\* Mutant of MapOrder: the entries in order of insertion (of their labels),
\* as a container that is not ordered by cmp would give them.
RECURSIVE MapOrderByLabel(_)
MapOrderByLabel(S) ==
    IF S = {} THEN EmptyVec
    ELSE LET hi == CHOOSE x \in S : \A y \in S : x.first >= y.first
         IN PushBack(MapOrderByLabel(S \ {hi}), hi)

\* The entries of the std::map in iteration order, i.e. by cmp of the keys.
RECURSIVE MapOrder(_)
MapOrder(S) ==
    IF S = {} THEN EmptyVec
    ELSE LET hi == CHOOSE x \in S : \A y \in S : ~Cmp(x.first, y.first)
         IN PushBack(MapOrder(S \ {hi}), hi)

\* output[g] after the push_back loop over unique.
Columns(uniq) == [g \in DOMAIN inputs |-> [u \in DOMAIN uniq |-> inputs[g][uniq[u].first]]]

\* End of the discovery loop and the remapping loop of combine_to_factor.
CombineRemap ==
    /\ pc = "ct_loop"
    /\ i = n
    /\ LET ordered == MapOrder(mapping) IN
         /\ unique' = ordered
         /\ output' = Columns(ordered)
         /\ remapping' = BuildRemapping(ordered)
    /\ pc' = "ct_rewrite"
    /\ UNCHANGED <<op, bits, n, inputs, cards, codes, i, f, mapping, levels,
                   ncombos, inner_repeats, outer_repeats>>

\* The rewriting loop of combine_to_factor and its return.
CombineRewrite ==
    /\ pc = "ct_rewrite"
    /\ codes' = RewriteCodes(codes, remapping)
    /\ pc' = "done"
    /\ UNCHANGED <<op, bits, n, inputs, cards, i, f, mapping, unique, remapping,
                   levels, output, ncombos, inner_repeats, outer_repeats>>

\* ------------------------------------------- specification: observed ops
Vals == 0..MaxVal

InitObserved ==
    /\ op \in {"create_factor", "combine_to_factor"}
    /\ bits \in 1..MaxCodeBits
    /\ n \in 0..MaxN
    /\ \E k \in ObservedArities :
         /\ op = "create_factor" => k = 1
         /\ inputs \in [0..(k - 1) -> [0..(n - 1) -> Vals]]
    /\ cards = EmptyVec
    /\ codes = Filled(n, Unwritten)
    /\ pc = IF op = "create_factor" THEN "cf_loop" ELSE "ct_entry"
    /\ i = 0
    /\ f = 0
    /\ mapping = {}
    /\ unique = EmptyVec
    /\ remapping = EmptyVec
    /\ levels = EmptyVec
    /\ output = Filled(Size(inputs), EmptyVec)
    /\ ncombos = 0
    /\ inner_repeats = 0
    /\ outer_repeats = 0

NextObserved ==
    \/ CreateDiscover
    \/ CreateRemap
    \/ CreateRewrite
    \/ CombineNoInputs
    \/ CombineDelegate
    \/ CombineGeneral
    \/ CombineDiscover
    \/ CombineRemap
    \/ CombineRewrite

SpecObserved == InitObserved /\ [][NextObserved]_vars

\* ============================================= combine_to_factor_unused
\* ninputs == 0
UnusedNoInputs ==
    /\ pc = "cu_entry"
    /\ ninputs = 0
    /\ codes' = [j \in DOMAIN codes |-> 0]
    /\ pc' = "done"
    /\ UNCHANGED <<op, bits, n, inputs, cards, i, f, mapping, unique, remapping,
                   levels, output, ncombos, inner_repeats, outer_repeats>>

\* std::iota(out.begin(), out.end(), static_cast<Code_>(0)) on len elements.
Iota(len) == [j \in 0..(len - 1) |-> ToCode(j)]

\* std::copy_n(src, n, codes)
CopyToCodes(src) == [j \in Obs |-> ToCode(src[j])]

\* ninputs == 1
UnusedSingle ==
    /\ pc = "cu_entry"
    /\ ninputs = 1
    /\ output' = [output EXCEPT ![0] = Iota(cards[0])]
    /\ codes' = CopyToCodes(inputs[0])
    /\ pc' = "done"
    /\ UNCHANGED <<op, bits, n, inputs, cards, i, f, mapping, unique, remapping,
                   levels, ncombos, inner_repeats, outer_repeats>>

\* The statements before the first variable loop.
UnusedStart ==
    /\ pc = "cu_entry"
    /\ ninputs >= 2
    /\ codes' = CopyToCodes(inputs[ninputs - 1])
    /\ ncombos' = ToCode(cards[ninputs - 1])
    /\ f' = ninputs - 1
    /\ pc' = "cu_codes"
    /\ UNCHANGED <<op, bits, n, inputs, cards, i, mapping, unique, remapping,
                   levels, output, inner_repeats, outer_repeats>>

\* sanisizer::product<Code_>(left, right) throws when the product does not fit
\* in Code_.
ProductThrows(left, right) == left * right > CodeMax
\* The product fits but an operand alone does not (left is 0): whether the
\* library rejects the operand is not decided by this repository.
ProductMayThrow(left, right) == left * right <= CodeMax /\ right > CodeMax

\* sanisizer::product_unsafe<Code_>(left, right)
ProductUnsafe(left, right) == ToCode(ToCode(left) * ToCode(right))

\* Mutant of AddStride: the raw value is added without its stride.
AddStrideNoBase(cs, nc, ff) == [j \in DOMAIN cs |-> ToCode(cs[j] + ToCode(ff[j]))]

\* codes[i] += product_unsafe(ncombos, ff[i]) for every observation.
AddStride(cs, nc, ff) == [j \in DOMAIN cs |-> ToCode(cs[j] + ProductUnsafe(nc, ff[j]))]

\* One iteration of the code loop: the checked product succeeds.
UnusedCodes ==
    /\ pc = "cu_codes"
    /\ f > 0
    /\ ~ProductThrows(ncombos, cards[f - 1])
    /\ codes' = AddStride(codes, ncombos, inputs[f - 1])
    /\ ncombos' = ncombos * cards[f - 1]
    /\ f' = f - 1
    /\ UNCHANGED <<op, bits, n, inputs, cards, pc, i, mapping, unique, remapping,
                   levels, output, inner_repeats, outer_repeats>>

\* One iteration of the code loop: the checked product throws.
UnusedOverflow ==
    /\ pc = "cu_codes"
    /\ f > 0
    /\ ProductThrows(ncombos, cards[f - 1]) \/ ProductMayThrow(ncombos, cards[f - 1])
    /\ pc' = "failed"
    /\ UNCHANGED <<op, bits, n, inputs, cards, codes, i, f, mapping, unique,
                   remapping, levels, output, ncombos, inner_repeats, outer_repeats>>

\* End of the code loop and the statements before the table loop.
UnusedTableInit ==
    /\ pc = "cu_codes"
    /\ f = 0
    /\ outer_repeats' = ncombos
    /\ inner_repeats' = 1
    /\ f' = ninputs
    /\ pc' = "cu_table"
    /\ UNCHANGED <<op, bits, n, inputs, cards, codes, i, mapping, unique,
                   remapping, levels, output, ncombos>>

\* const Code_ initial_size = inner_repeats * finfo.second
InitialSize(inner, card) == ToCode(inner * card)

\* Mutant of FirstCycle: the levels are not repeated in runs of inner.
FirstCycleNoRuns(inner, card) ==
    [j \in 0..(InitialSize(inner, card) - 1) |-> j % (IF card = 0 THEN 1 ELSE card)]

\* The column after resize(initial_size) and the iota / fill_n loop.
FirstCycle(inner, card) ==
    IF inner = 1 THEN Iota(InitialSize(inner, card))
    ELSE [j \in 0..(InitialSize(inner, card) - 1) |-> j \div inner]

\* The fill_n loop writes card * inner elements into initial_size elements.
FillOverruns(inner, card) == inner # 1 /\ card * inner > InitialSize(inner, card)

\* The column after the insert loop: the cycle, repeated outer times in all.
RECURSIVE Replicate(_, _)
Replicate(cycle, outer) ==
    IF outer <= 1 THEN cycle
    ELSE Concat(Replicate(cycle, outer - 1), cycle)

\* outer_repeats /= finfo.second, for a non-zero divisor.
Quotient(outer, card) == ToCode(outer \div card)

\* One iteration of the table loop, with outer_repeats becoming q.  Writing
\* past the end of the column, or inserting past the reserved capacity while
\* reading from the column itself, is a fault.
TableStep(q) ==
    LET card == cards[f - 1]
        cycle == FirstCycle(inner_repeats, card)
        grown == Replicate(cycle, q)
        capacity == IF ncombos > Size(cycle) THEN ncombos ELSE Size(cycle)
    IN
    /\ IF FillOverruns(inner_repeats, card) \/ Size(grown) > capacity
       THEN pc' = "fault" /\ output' = output
       ELSE /\ output' = [output EXCEPT ![f - 1] = grown]
            /\ pc' = IF f = 1 THEN "done" ELSE "cu_table"
    /\ inner_repeats' = InitialSize(inner_repeats, card)
    /\ outer_repeats' = q
    /\ f' = f - 1

UnusedTable ==
    /\ pc = "cu_table"
    /\ f > 0
    /\ cards[f - 1] # 0
    /\ TableStep(Quotient(outer_repeats, cards[f - 1]))
    /\ UNCHANGED <<op, bits, n, inputs, cards, codes, i, mapping, unique,
                   remapping, levels, ncombos>>

\* One iteration of the table loop with finfo.second == 0: the integer
\* division by zero is undefined; the build either continues with some
\* value of outer_repeats ...
UnusedTableZero ==
    /\ pc = "cu_table"
    /\ f > 0
    /\ cards[f - 1] = 0
    /\ \E q \in 0..CodeMax : TableStep(q)
    /\ UNCHANGED <<op, bits, n, inputs, cards, codes, i, mapping, unique,
                   remapping, levels, ncombos>>

\* ... or traps.
UnusedDivideTrap ==
    /\ pc = "cu_table"
    /\ f > 0
    /\ cards[f - 1] = 0
    /\ pc' = "fault"
    /\ UNCHANGED <<op, bits, n, inputs, cards, codes, i, f, mapping, unique,
                   remapping, levels, output, ncombos, inner_repeats, outer_repeats>>

\* ------------------------------- specification: combine_to_factor_unused
\* The raw values satisfy the documented precondition inputs[f][i] < cards[f].
InitUnused ==
    /\ op = "combine_to_factor_unused"
    /\ bits \in 1..MaxCodeBits
    /\ n \in 0..MaxObs
    /\ \E k \in UnusedArities :
         /\ cards \in [0..(k - 1) -> 0..MaxCard]
         /\ inputs \in [0..(k - 1) -> [0..(n - 1) -> 0..MaxCard]]
    /\ \A g \in DOMAIN inputs : \A j \in 0..(n - 1) : inputs[g][j] < cards[g]
    /\ codes = Filled(n, Unwritten)
    /\ pc = "cu_entry"
    /\ i = 0
    /\ f = 0
    /\ mapping = {}
    /\ unique = EmptyVec
    /\ remapping = EmptyVec
    /\ levels = EmptyVec
    /\ output = Filled(Size(inputs), EmptyVec)
    /\ ncombos = 0
    /\ inner_repeats = 0
    /\ outer_repeats = 0

NextUnused ==
    \/ UnusedNoInputs
    \/ UnusedSingle
    \/ UnusedStart
    \/ UnusedCodes
    \/ UnusedOverflow
    \/ UnusedTableInit
    \/ UnusedTable
    \/ UnusedTableZero
    \/ UnusedDivideTrap

SpecUnused == InitUnused /\ [][NextUnused]_vars

\* ================================================================ claims
\* The table a call returns, as a vector of columns.
Table == IF op = "create_factor" THEN [g \in {0} |-> levels] ELSE output
\* M: the length of the returned table.
TableLen == Size(Table[0])
Returned == pc = "done"
\* The distinct values / combinations of the input.
Distinct == {Tuple(j) : j \in Obs}
NumDistinct == Cardinality(Distinct)
ObservedCall == op \in {"create_factor", "combine_to_factor"} /\ ninputs >= 1

\* Column u of the table precedes column v lexicographically.
ColumnLess(u, v) ==
    \E g \in DOMAIN Table :
        /\ Table[g][u] < Table[g][v]
        /\ \A h \in 0..(g - 1) : Table[h][u] = Table[h][v]

\* C1: round trip of the observed operations.  When the number of distinct
\* values / combinations fits in the code type, after the call returns every
\* observation j has output[g][codes[j]] == inputs[g][j] for every variable g.
C1_RoundTrip ==
    (Returned /\ ObservedCall /\ NumDistinct <= CodeMax) =>
        \A j \in Obs : \A g \in DOMAIN inputs :
            /\ codes[j] \in DOMAIN Table[g]
            /\ Table[g][codes[j]] = inputs[g][j]

\* Scenario-A-like case: two variables, three combinations found in an order
\* that is not the sorted one, so that the rewriting changes the codes.
C1_Witness ==
    /\ Returned /\ op = "combine_to_factor" /\ ninputs = 2 /\ n = 3
    /\ NumDistinct = 3 /\ NumDistinct <= CodeMax
    /\ Cmp(1, 0) /\ Cmp(2, 1)
    /\ codes = [j \in Obs |-> 2 - j]
    /\ \A j \in Obs : \A g \in DOMAIN inputs : Table[g][codes[j]] = inputs[g][j]

\* C2: uniqueness and sortedness of the observed table.  For every input the
\* returned levels / combinations are strictly increasing in lexicographic
\* order (variable 0 first), and all columns have the same length.
C2_SortedUnique ==
    (Returned /\ ObservedCall) =>
        /\ \A g \in DOMAIN Table : Size(Table[g]) = TableLen
        /\ \A u \in 0..(TableLen - 1) : \A v \in 0..(TableLen - 1) :
               u < v => ColumnLess(u, v)

\* Two variables, three combinations, the first two tied on variable 0 and
\* ordered by variable 1, found in the reverse of the sorted order.
C2_Witness ==
    /\ Returned /\ op = "combine_to_factor" /\ ninputs = 2 /\ TableLen = 3
    /\ Table[0][0] = Table[0][1] /\ Table[1][0] < Table[1][1]
    /\ Table[0][1] < Table[0][2]
    /\ Cmp(1, 0) /\ Cmp(2, 1)

\* C3: density of the observed variant, as stated (for every input).  After
\* the call returns a table of length M every code is in [0, M), every integer
\* of [0, M) is the code of some observation, and M = 0 exactly when n = 0.
C3_Density ==
    (Returned /\ ObservedCall) =>
        /\ \A j \in Obs : codes[j] \in 0..(TableLen - 1)
        /\ \A c \in 0..(TableLen - 1) : \E j \in Obs : codes[j] = c
        /\ (TableLen = 0 <=> n = 0)

\* C7: capacity of the code type is a checked failure.  A call whose input
\* holds more distinct values / combinations than Code_ can label never
\* returns, so two observations with different tuples never share a code.
C7_CapacityChecked ==
    (Returned /\ ObservedCall) =>
        /\ NumDistinct <= Modulus
        /\ \A j \in Obs : \A l \in Obs : Tuple(j) # Tuple(l) => codes[j] # codes[l]

\* The tuple a map entry stands for: the key itself in create_factor, the
\* observation the key indexes in combine_to_factor.
EntryTuple(e) == IF pc = "cf_loop" THEN [g \in {0} |-> e.first] ELSE Tuple(e.first)
\* The observation at which tuple t first occurs.
FirstSeen(t) == CHOOSE j \in Obs : Tuple(j) = t /\ \A l \in 0..(j - 1) : Tuple(l) # t
\* The number of distinct tuples first seen before t.
Rank(t) == Cardinality({Tuple(l) : l \in 0..(FirstSeen(t) - 1)})
IsPermutation(v) == \A c \in DOMAIN v : \E u \in DOMAIN v : v[u] = c

\* C10: first-seen labelling of the discovery pass, as stated (for every
\* input).  After i observations the map holds exactly the distinct tuples of
\* observations 0..i-1, labelled 0..size-1 in order of first occurrence, and
\* codes[j] is the label of observation j; the remapping table built from it
\* is indexed within [0, nuniq) and is a permutation of [0, nuniq).
C10_FirstSeenLabels ==
    /\ pc \in {"cf_loop", "ct_loop"} =>
         /\ {EntryTuple(e) : e \in mapping} = {Tuple(j) : j \in 0..(i - 1)}
         /\ Cardinality(mapping) = Cardinality({Tuple(j) : j \in 0..(i - 1)})
         /\ \A e \in mapping : e.second = Rank(EntryTuple(e))
         /\ \A j \in 0..(i - 1) : codes[j] = Rank(Tuple(j))
    /\ pc \in {"cf_rewrite", "ct_rewrite"} =>
         /\ \A u \in DOMAIN unique : unique[u].second \in DOMAIN remapping
         /\ \A j \in Obs : codes[j] \in DOMAIN remapping
         /\ IsPermutation(remapping)

\* ------------------------------------------------ combine_to_factor_unused
UnusedCall == op = "combine_to_factor_unused" /\ ninputs >= 2
\* c_g * ... * c_{k-1}
RECURSIVE CardProduct(_)
CardProduct(g) == IF g >= ninputs THEN 1 ELSE cards[g] * CardProduct(g + 1)
TotalCombos == CardProduct(0)
\* The stride of variable g: c_{g+1} * ... * c_{k-1}
Stride(g) == CardProduct(g + 1)
PositiveCards == \A g \in DOMAIN cards : cards[g] > 0
\* The mixed-radix value of observation j over the variables g..k-1.
RECURSIVE Radix(_, _)
Radix(j, g) == IF g >= ninputs THEN 0 ELSE inputs[g][j] * Stride(g) + Radix(j, g + 1)
\* The tuples l with 0 <= l_g < c_g.
AllLevels == {l \in [DOMAIN cards -> 0..MaxCard] : \A g \in DOMAIN cards : l[g] < cards[g]}
Column(j) == [g \in DOMAIN output |-> output[g][j]]

\* C4: Cartesian completeness and order of the full combiner.  For k >= 2
\* positive cardinalities whose product P fits in the code type the call
\* returns, every column has length P, column j holds
\* l_g = (j div stride_g) mod c_g, and every tuple of levels is exactly one
\* column.
C4_CartesianTable ==
    (UnusedCall /\ PositiveCards /\ TotalCombos <= CodeMax) =>
        /\ pc \notin {"failed", "fault"}
        /\ Returned =>
             /\ \A g \in DOMAIN output :
                  /\ Size(output[g]) = TotalCombos
                  /\ \A j \in 0..(TotalCombos - 1) :
                       output[g][j] = (j \div Stride(g)) % cards[g]
             /\ \A l \in AllLevels :
                  Cardinality({j \in 0..(TotalCombos - 1) : Column(j) = l}) = 1

\* Three variables of cardinalities 1, 2 and 3: six columns, the middle
\* variable in runs of three.
C4_Witness ==
    /\ UnusedCall /\ Returned /\ ninputs = 3
    /\ cards[0] = 1 /\ cards[1] = 2 /\ cards[2] = 3 /\ TotalCombos <= CodeMax
    /\ Size(output[1]) = 6 /\ output[1][2] = 0 /\ output[1][3] = 1
    /\ output[2][5] = 2

\* C5: mixed-radix codes of the full combiner.  Under the same conditions,
\* with every raw value below its cardinality, codes[j] is the sum of
\* inputs[g][j] * stride_g, and the table at codes[j] gives observation j back.
C5_MixedRadixCodes ==
    (UnusedCall /\ PositiveCards /\ TotalCombos <= CodeMax /\ Returned) =>
        \A j \in Obs :
            /\ codes[j] = Radix(j, 0)
            /\ \A g \in DOMAIN inputs :
                 /\ codes[j] \in DOMAIN output[g]
                 /\ output[g][codes[j]] = inputs[g][j]

\* Scenario-C-like case: cardinalities 2 and 3, observation (1, 2), code 5.
C5_Witness ==
    /\ UnusedCall /\ Returned /\ ninputs = 2 /\ n = 1
    /\ cards[0] = 2 /\ cards[1] = 3 /\ TotalCombos <= CodeMax
    /\ inputs[0][0] = 1 /\ inputs[1][0] = 2
    /\ codes[0] = 5

\* C6: overflow of the full combiner fails before any output is written.
\* When the product of the cardinalities exceeds the range of the code type
\* the call does not return, and when it has failed the caller's codes array
\* is as it was on entry.
C6_OverflowFailsUnwritten ==
    (UnusedCall /\ TotalCombos > CodeMax) =>
        /\ ~Returned
        /\ pc = "failed" => codes = Filled(n, Unwritten)

\* C8: zero cardinality in the full combiner.  With k >= 2 variables and a
\* cardinality of zero the call reaches no fault, and on return every column
\* has length 0 and no code has been written.
C8_ZeroCardinalityEmpty ==
    (UnusedCall /\ \E g \in DOMAIN cards : cards[g] = 0) =>
        /\ pc # "fault"
        /\ Returned =>
             /\ \A g \in DOMAIN output : Size(output[g]) = 0
             /\ codes = Filled(n, Unwritten)

\* C9: safety of the unchecked per-observation arithmetic.  With every raw
\* value below its cardinality, while the checked product has not failed,
\* every code is below ncombos at the start and at the end of every iteration
\* of the code loop, so that the unchecked product and sum of the next
\* iteration stay below next_ncombos.
C9_CodesBelowCombos ==
    (UnusedCall /\ pc = "cu_codes") =>
        \A j \in Obs : codes[j] < ncombos

====
